---- MODULE Spec2Model ----
(***************************************************************************)
(* Model of src/de.rs: the query-string parser (Parser), the tree it       *)
(* builds (Level), Deserializer::new and the LevelDeserializer driver.     *)
(* Bytes are integers 0..255, texts and keys are sequences of bytes.       *)
(***************************************************************************)
EXTENDS Integers, Sequences, FiniteSets, TLC

(***************************************************************************)
(* Byte literals of the source.                                            *)
(***************************************************************************)
b_eq == 61
b_amp == 38
b_lbr == 91
b_rbr == 93
b_pct == 37
b_a == 97
b_z == 122
b_A == 65
b_Z == 90
b_0 == 48
b_9 == 57
printable_lo == 32
printable_hi == 126
array_limit == 20

\* Option<u8>::None
None == -1

Letter(x) == (x >= b_a /\ x <= b_z) \/ (x >= b_A /\ x <= b_Z)
Digit(x) == x >= b_0 /\ x <= b_9

(***************************************************************************)
(* enum Level.  The tree under the root is kept as a store: a function     *)
(* from the place of a node (the keys on the way from the root, <<>> for   *)
(* the root) to the node's variant.  The entries of a Nested at place q    *)
(* are the nodes at the places Append(q, key); the i-th element of a       *)
(* Sequence at q is at Append(q, <<-i>>).  A `&mut Level` is a place.      *)
(***************************************************************************)
Nested == [kind |-> "Nested", val |-> <<>>, reason |-> ""]
Sequence == [kind |-> "Sequence", val |-> <<>>, reason |-> ""]
Flat(v) == [kind |-> "Flat", val |-> v, reason |-> ""]
Invalid(r) == [kind |-> "Invalid", val |-> <<>>, reason |-> r]

\* q lies strictly below place at
Under(at, q) == Len(q) > Len(at) /\ SubSeq(q, 1, Len(at)) = at

\* the places of the entries (elements) of the node at `at`
Children(tree, at) == {q \in DOMAIN tree : Len(q) = Len(at) + 1 /\ Under(at, q)}

\* the slot at place q now holds `level`; what was below the old value is dropped
Put(tree, q, level) ==
  [x \in {y \in DOMAIN tree : ~Under(q, y)} \cup {q} |->
     IF x = q THEN level ELSE tree[x]]

\* FnvHashMap::default() as the root: Level::Nested(map)
EmptyRoot == [q \in {<<>>} |-> Nested]

(***************************************************************************)
(* String::from_utf8: whether a byte vector is well-formed UTF-8.          *)
(***************************************************************************)
Cont(x) == x >= 128 /\ x <= 191

RECURSIVE Utf8From(_, _)
Utf8From(s, i) ==
  IF i > Len(s) THEN TRUE
  ELSE LET x == s[i]
           c(j) == IF i + j <= Len(s) THEN s[i + j] ELSE None
       IN  IF x < 128 THEN Utf8From(s, i + 1)
           ELSE IF x >= 194 /\ x <= 223
             THEN Cont(c(1)) /\ Utf8From(s, i + 2)
           ELSE IF x = 224
             THEN c(1) >= 160 /\ c(1) <= 191 /\ Cont(c(2)) /\ Utf8From(s, i + 3)
           ELSE IF (x >= 225 /\ x <= 236) \/ x = 238 \/ x = 239
             THEN Cont(c(1)) /\ Cont(c(2)) /\ Utf8From(s, i + 3)
           ELSE IF x = 237
             THEN c(1) >= 128 /\ c(1) <= 159 /\ Cont(c(2)) /\ Utf8From(s, i + 3)
           ELSE IF x = 240
             THEN c(1) >= 144 /\ c(1) <= 191 /\ Cont(c(2)) /\ Cont(c(3))
                  /\ Utf8From(s, i + 4)
           ELSE IF x >= 241 /\ x <= 243
             THEN Cont(c(1)) /\ Cont(c(2)) /\ Cont(c(3)) /\ Utf8From(s, i + 4)
           ELSE IF x = 244
             THEN c(1) >= 128 /\ c(1) <= 143 /\ Cont(c(2)) /\ Cont(c(3))
                  /\ Utf8From(s, i + 4)
           ELSE FALSE

from_utf8_ok(s) == Utf8From(s, 1)

(***************************************************************************)
(* percent_encoding::percent_decode: "%XY" with two hex digits becomes the *)
(* byte 16*X+Y; every other byte, a '%' not followed by two hex digits     *)
(* included, is copied.                                                    *)
(***************************************************************************)
HexVal(x) ==
  IF Digit(x) THEN x - b_0
  ELSE IF x >= b_a /\ x <= b_a + 5 THEN x - b_a + 10
  ELSE IF x >= b_A /\ x <= b_A + 5 THEN x - b_A + 10
  ELSE None

RECURSIVE percent_decode(_)
percent_decode(s) ==
  IF s = <<>> THEN <<>>
  ELSE IF Head(s) = b_pct /\ Len(s) >= 3 /\ HexVal(s[2]) # None /\ HexVal(s[3]) # None
    THEN <<16 * HexVal(s[2]) + HexVal(s[3])>> \o percent_decode(SubSeq(s, 4, Len(s)))
  ELSE <<Head(s)>> \o percent_decode(Tail(s))

(***************************************************************************)
(* struct Parser: inner (the bytes not yet read), acc, peeked.  `writes`   *)
(* is a history field: the terminal writes parse_map_value has made, each  *)
(* the place of the slot written.                                          *)
(***************************************************************************)
Parser_new(iter) ==
  [inner |-> iter, acc |-> <<>>, peeked |-> None, writes |-> <<>>]

\* 1-based place of the first '&' in s, 0 when there is none
FirstAmp(s) ==
  IF \E i \in 1..Len(s) : s[i] = b_amp
  THEN CHOOSE i \in 1..Len(s) : s[i] = b_amp /\ \A j \in 1..(i - 1) : s[j] # b_amp
  ELSE 0

\* self.take_while(|b| *b != b'&').collect(): the bytes before the first '&';
\* the '&' itself is read and dropped
take_while_not_amp(p) ==
  LET i == FirstAmp(p.inner)
  IN  IF i = 0 THEN [p |-> [p EXCEPT !.inner = <<>>], vec |-> p.inner]
      ELSE [p |-> [p EXCEPT !.inner = SubSeq(@, i + 1, Len(@))],
            vec |-> SubSeq(p.inner, 1, i - 1)]

\* self.position(|b| b == b'&'): reads up to and including the first '&' and
\* gives its 0-based index, None when the input ends first
position_amp(p) ==
  LET i == FirstAmp(p.inner)
  IN  IF i = 0 THEN [p |-> [p EXCEPT !.inner = <<>>], idx |-> None]
      ELSE [p |-> [p EXCEPT !.inner = SubSeq(@, i + 1, Len(@))], idx |-> i - 1]

\* Iterator::next for Parser
next(p) ==
  IF p.inner = <<>> THEN [p |-> p, x |-> None]
  ELSE [p |-> [p EXCEPT !.inner = Tail(@)], x |-> Head(p.inner)]

peek(p) ==
  IF p.acc # <<>> THEN [p |-> p, x |-> p.peeked]
  ELSE IF p.inner # <<>>
    THEN [p |-> [p EXCEPT !.inner = Tail(@), !.acc = <<Head(p.inner)>>,
                          !.peeked = Head(p.inner)],
          x |-> Head(p.inner)]
  ELSE [p |-> p, x |-> None]

\* Result of a key parse: res is "Ok", "Err" or "Panic" (tu! at end of input)
RECURSIVE parse_string_key(_, _, _)
parse_string_key(p, end_on, consume) ==
  LET n == next(p)
      q == n.p
      x == n.x
  IN  IF x = None THEN [p |-> q, res |-> "Panic", key |-> <<>>]
      ELSE IF x = end_on
        THEN [p |-> IF consume THEN [q EXCEPT !.acc = <<>>]
                    ELSE [q EXCEPT !.acc = <<x>>, !.peeked = x],
              res |-> IF from_utf8_ok(q.acc) THEN "Ok" ELSE "Err",
              key |-> q.acc]
      ELSE IF x = b_eq
        THEN [p |-> [q EXCEPT !.acc = <<x>>, !.peeked = x],
              res |-> IF from_utf8_ok(q.acc) THEN "Ok" ELSE "Err",
              key |-> q.acc]
      ELSE IF x = b_rbr \/ x = b_lbr
        THEN [p |-> q, res |-> "Err", key |-> <<>>]
      ELSE IF x >= printable_lo /\ x <= printable_hi
        THEN parse_string_key([q EXCEPT !.acc = Append(@, x)], end_on, consume)
      ELSE [p |-> q, res |-> "Err", key |-> <<>>]

\* Ok(None): no numeric key is ever produced
parse_int_key(p, end_on) == [p |-> p, res |-> "Ok", key |-> None]

\* entry_insert with the value of the later write kept on an occupied slot
entry_insert_last_wins(tree, at, key, value) ==
  Put(tree, Append(at, key), Flat(value))

\* match map.entry(key): Occupied => insert Invalid, Vacant => insert Flat(value)
\* (map is the Nested at place `at`)
entry_insert(tree, at, key, value) ==
  IF Append(at, key) \in DOMAIN tree
  THEN Put(tree, Append(at, key), Invalid("Multiple values for one key"))
  ELSE Put(tree, Append(at, key), Flat(value))

\* map.entry(key).or_insert(Level::Nested(FnvHashMap::default()))
entry_or_insert(tree, at, key) ==
  IF Append(at, key) \in DOMAIN tree THEN tree
  ELSE Put(tree, Append(at, key), Nested)

(***************************************************************************)
(* One invocation of parse on the node at place `at`, up to its return or  *)
(* up to the call self.parse(map.entry(key).or_insert(..)) in              *)
(* parse_map_value, which is res = "Descend" with `at` the place of the    *)
(* entry: the nested invocation is the next step.  What the callers do     *)
(* with the nested result ("?" and then Ok(()), Ok(true)) is Unwind.       *)
(***************************************************************************)
\* res is "Ok", "Err", "Panic" or "Descend"
parse_map_value(p, key, tree, at) ==
  LET pk == peek(p)
      node == tree[at]
  IN  IF pk.x = None THEN [p |-> pk.p, tree |-> tree, res |-> "Panic", at |-> at]
      ELSE IF pk.x = b_eq
        THEN LET tw == take_while_not_amp([pk.p EXCEPT !.acc = <<>>])
                 value == tw.vec
             IN  IF ~from_utf8_ok(value)
                   THEN [p |-> tw.p, tree |-> tree, res |-> "Err", at |-> at]
                 ELSE IF node.kind = "Nested"
                   THEN [p |-> [tw.p EXCEPT !.writes = Append(@, Append(at, key))],
                         tree |-> entry_insert(tree, at, key, value),
                         res |-> "Ok", at |-> at]
                 ELSE [p |-> tw.p, tree |-> tree, res |-> "Panic", at |-> at]
      ELSE IF node.kind = "Nested"
        THEN [p |-> pk.p, tree |-> entry_or_insert(tree, at, key),
              res |-> "Descend", at |-> Append(at, key)]
      ELSE [p |-> pk.p, tree |-> tree, res |-> "Ok", at |-> at]

parse_seq_value(p, tree, at) ==
  LET pk == peek(p)
      node == tree[at]
  IN  IF pk.x = None THEN [p |-> pk.p, tree |-> tree, res |-> "Panic", at |-> at]
      ELSE IF pk.x = b_eq
        THEN LET pos == position_amp([pk.p EXCEPT !.acc = <<>>])
                 n == IF pos.idx = None THEN 0
                      ELSE IF pos.idx <= Len(pos.p.inner) THEN pos.idx
                      ELSE Len(pos.p.inner)
                 value == SubSeq(pos.p.inner, 1, n)
                 q == [pos.p EXCEPT !.inner = SubSeq(@, n + 1, Len(@))]
             IN  IF ~from_utf8_ok(value)
                   THEN [p |-> q, tree |-> tree, res |-> "Err", at |-> at]
                 ELSE IF node.kind = "Sequence"
                   THEN [p |-> q,
                         tree |-> Put(tree,
                                      Append(at, <<-(Cardinality(Children(tree, at)) + 1)>>),
                                      Flat(value)),
                         res |-> "Ok", at |-> at]
                 ELSE [p |-> q, tree |-> tree, res |-> "Panic", at |-> at]
      ELSE [p |-> pk.p, tree |-> tree, res |-> "Err", at |-> at]

\* Ok(()) of a map or sequence step becomes Ok(true); the rest passes on
ok_true(r) == [r EXCEPT !.res = IF @ = "Ok" THEN "OkTrue" ELSE @]

\* parse_string_key(..).unwrap(), then parse_map_value(key, node)?
string_key_then_map(p, end_on, consume, tree, at) ==
  LET k == parse_string_key(p, end_on, consume)
  IN  IF k.res # "Ok" THEN [p |-> k.p, tree |-> tree, res |-> "Panic", at |-> at]
      ELSE ok_true(parse_map_value(k.p, k.key, tree, at))

\* parse_int_key(..).unwrap() is always None: parse_seq_value(node)?
int_key_then_seq(p, end_on, tree, at) ==
  LET k == parse_int_key(p, end_on)
  IN  IF k.key # None
        THEN ok_true(parse_map_value(k.p, <<k.key>>, tree, at))
      ELSE ok_true(parse_seq_value(k.p, tree, at))

\* res is "OkTrue", "OkFalse", "Err", "Panic" or "Descend"
parse(p, tree, at) ==
  LET pk == peek(p)
      x == pk.x
  IN  IF x = None THEN [p |-> pk.p, tree |-> tree, res |-> "OkFalse", at |-> at]
      ELSE IF Letter(x) THEN string_key_then_map(pk.p, b_lbr, FALSE, tree, at)
      ELSE IF Digit(x) THEN int_key_then_seq(pk.p, b_lbr, tree, at)
      ELSE IF x = b_lbr
        THEN LET pk2 == peek([pk.p EXCEPT !.acc = <<>>])
                 y == pk2.x
             IN  IF y = None THEN [p |-> pk2.p, tree |-> tree, res |-> "Panic", at |-> at]
                 ELSE IF Letter(y)
                   THEN string_key_then_map(pk2.p, b_rbr, TRUE, tree, at)
                 ELSE IF Digit(y) THEN int_key_then_seq(pk2.p, b_rbr, tree, at)
                 ELSE [p |-> pk2.p, tree |-> tree, res |-> "Panic", at |-> at]
      ELSE [p |-> pk.p, tree |-> tree, res |-> "Panic", at |-> at]

\* What parse on the root returns when the invocation at place `at` returned
\* res: each enclosing parse_map_value passes an Err on ("?") and answers
\* Ok(()) otherwise, and its parse answers Ok(true).
Unwind(res, at) ==
  IF at = <<>> \/ res \in {"Err", "Panic"} THEN res ELSE "OkTrue"

(***************************************************************************)
(* Inputs.  A document is a sequence of pairs [key, val]; a key is a       *)
(* sequence of segments, the first written bare and the later ones in      *)
(* brackets: "id" an identifier, "idx" digits, "empty" the segment [],     *)
(* "open" an identifier whose ']' is missing.  val is the value as written *)
(* (still percent-encoded).  Render gives the bytes handed to from_bytes.  *)
(***************************************************************************)
MaxPairs == 3
MaxSegs == 2
MaxRaw == 5
DeepOver == 1

RenderSeg(g, first) ==
  IF first THEN g.s
  ELSE IF g.t = "open" THEN <<b_lbr>> \o g.s
  ELSE <<b_lbr>> \o g.s \o <<b_rbr>>

RECURSIVE RenderKey(_, _)
RenderKey(key, i) ==
  IF i > Len(key) THEN <<>>
  ELSE RenderSeg(key[i], i = 1) \o RenderKey(key, i + 1)

RenderPair(pr) == RenderKey(pr.key, 1) \o <<b_eq>> \o pr.val

RECURSIVE Render(_)
Render(d) ==
  IF d = <<>> THEN <<>>
  ELSE IF Len(d) = 1 THEN RenderPair(d[1])
  ELSE RenderPair(d[1]) \o <<b_amp>> \o Render(Tail(d))

Id(s) == [t |-> "id", s |-> s]
Idx(s) == [t |-> "idx", s |-> s]
Empty == [t |-> "empty", s |-> <<>>]
Open(s) == [t |-> "open", s |-> s]
P(key, val) == [key |-> key, val |-> val]

\* sequences over S of length 0..n
RECURSIVE SeqsUpTo(_, _)
SeqsUpTo(S, n) ==
  IF n = 0 THEN {<<>>}
  ELSE LET R == SeqsUpTo(S, n - 1)
       IN  R \cup {Append(r, x) : r \in {q \in R : Len(q) = n - 1}, x \in S}
\* The inputs the specification and the claims name
ExampleDocs ==
  {
    \* (the empty input)
    <<>>,
    \* name=Alice&age=24
    <<P(<<Id(<<110, 97, 109, 101>>)>>, <<65, 108, 105, 99, 101>>),
      P(<<Id(<<97, 103, 101>>)>>, <<50, 52>>)>>,
    \* a[b]=1&a[c]=2
    <<P(<<Id(<<97>>), Id(<<98>>)>>, <<49>>),
      P(<<Id(<<97>>), Id(<<99>>)>>, <<50>>)>>,
    \* a[]=1&a[]=2
    <<P(<<Id(<<97>>), Empty>>, <<49>>),
      P(<<Id(<<97>>), Empty>>, <<50>>)>>,
    \* a[0]=1&a[1]=2
    <<P(<<Id(<<97>>), Idx(<<48>>)>>, <<49>>),
      P(<<Id(<<97>>), Idx(<<49>>)>>, <<50>>)>>,
    \* a[5]=x&a[0]=y
    <<P(<<Id(<<97>>), Idx(<<53>>)>>, <<120>>),
      P(<<Id(<<97>>), Idx(<<48>>)>>, <<121>>)>>,
    \* a=1&a=2
    <<P(<<Id(<<97>>)>>, <<49>>),
      P(<<Id(<<97>>)>>, <<50>>)>>,
    \* a[b=1
    <<P(<<Id(<<97>>), Open(<<98>>)>>, <<49>>)>>,
    \* name=John%20Doe
    <<P(<<Id(<<110, 97, 109, 101>>)>>, <<74, 111, 104, 110, 37, 50, 48, 68, 111, 101>>)>>,
    \* a=x%26y&b=2
    <<P(<<Id(<<97>>)>>, <<120, 37, 50, 54, 121>>),
      P(<<Id(<<98>>)>>, <<50>>)>>,
    \* a=1&a[b]=2
    <<P(<<Id(<<97>>)>>, <<49>>),
      P(<<Id(<<97>>), Id(<<98>>)>>, <<50>>)>>,
    \* a=1&a[b][c]=2
    <<P(<<Id(<<97>>)>>, <<49>>),
      P(<<Id(<<97>>), Id(<<98>>), Id(<<99>>)>>, <<50>>)>>
  }

ExampleRaw ==
  {
    <<97, 61, 49, 38, 48, 61, 120, 38, 98, 61, 50>>,   \* a=1&0=x&b=2
    <<110, 97, 109, 101>>,   \* name
    <<97, 93, 98, 61, 49>>,   \* a]b=1
    <<97, 91, 93, 61, 49>>,   \* a[]=1
    <<38, 97, 61, 49>>,   \* &a=1
    <<61, 49>>,   \* =1
    <<97, 61, 49, 38, 38, 98, 61, 50>>,   \* a=1&&b=2
    <<97, 91, 98, 93>>,   \* a[b]
    <<97, 61, 37, 102, 102>>    \* a=%ff
  }

\* a, a[a], a[b], a[a][a], ... : one head and up to MaxSegs bracketed names
MapKeys == {<<Id(<<97>>)>> \o k : k \in SeqsUpTo({Id(<<97>>), Id(<<98>>)}, MaxSegs)}

\* up to MaxPairs pairs with keys of `keys`; the i-th pair has the value "i"
RECURSIVE DocsOver(_, _)
DocsOver(keys, n) ==
  IF n = 0 THEN {<<>>}
  ELSE LET R == DocsOver(keys, n - 1)
       IN  R \cup {Append(r, P(k, <<b_0 + n>>)) :
                     r \in {q \in R : Len(q) = n - 1}, k \in keys}

MapDocs == DocsOver(MapKeys, MaxPairs)

\* a[]=.., a[0]=.., a[5]=..
SeqDocs ==
  DocsOver({<<Id(<<97>>), g>> : g \in {Empty, Idx(<<48>>), Idx(<<53>>)}}, MaxPairs)

\* values as written: "", "2", "%26", "2%266", "%2", "x%3Dy", and the byte 0xff
Values ==
  { <<>>, <<50>>, <<37, 50, 54>>, <<50, 37, 50, 54, 54>>, <<37, 50>>,
    <<120, 37, 51, 68, 121>>, <<255>> }

ValuePairs == {P(<<Id(h)>>, v) : h \in {<<97>>, <<98>>}, v \in Values}
ValueDocs == {<<x>> : x \in ValuePairs} \cup {<<x, y>> : x, y \in ValuePairs}

\* a[b=1, a[a][b=1, a[b=1&b=2
OpenDocs ==
  { <<P(<<Id(<<97>>), Open(<<98>>)>>, <<49>>)>>,
    <<P(<<Id(<<97>>), Id(<<97>>), Open(<<98>>)>>, <<49>>)>>,
    <<P(<<Id(<<97>>), Open(<<98>>)>>, <<49>>), P(<<Id(<<98>>)>>, <<50>>)>> }

\* a[b][b]...[b]=1 with n bracketed segments, n around array_limit
DeepKey(n) == <<Id(<<97>>)>> \o [i \in 1..n |-> Id(<<98>>)]
DeepDocs == {<<P(DeepKey(n), <<49>>)>> : n \in (array_limit - 1)..(array_limit + DeepOver)}

Docs == ExampleDocs \cup MapDocs \cup SeqDocs \cup ValueDocs \cup OpenDocs \cup DeepDocs

\* every byte string of 1..MaxRaw bytes over a [ ] = & 2
RawAlphabet == {97, b_lbr, b_rbr, b_eq, b_amp, 50}
RawInputs == (SeqsUpTo(RawAlphabet, MaxRaw) \ {<<>>}) \cup ExampleRaw

(***************************************************************************)
(* State.                                                                  *)
(*   input  the bytes given to from_bytes                                  *)
(*   doc    history: the document `input` was rendered from (raw = TRUE    *)
(*          for a bare byte string)                                        *)
(*   parser, root   the locals of Deserializer::new                        *)
(*   cursor the place of the node the running invocation of parse was      *)
(*          called with; Len(cursor) is the depth of the recursion         *)
(*   phase  "parsing" in the loop of Deserializer::new, "panicked" after   *)
(*          an abort, then the driver: "ready" (Deserializer built),       *)
(*          "failed" (an access returned Err), "value" (a scalar was       *)
(*          handed out)                                                    *)
(*   last   the result of the last call of parser.parse(&mut root) and the *)
(*          number of terminal writes it made                              *)
(*   drv    the deserializer the driver holds and its last access          *)
(***************************************************************************)
VARIABLES input, doc, parser, root, cursor, phase, last, drv

vars == <<input, doc, parser, root, cursor, phase, last, drv>>

NoAccess == [cap |-> "none", on |-> Invalid(""), ok |-> TRUE]

Idle == [mode |-> "idle", at |-> <<>>, elems |-> <<>>, out |-> <<>>, access |-> NoAccess]

\* Deserializer { iter: map.into_iter() } over the entries of the Nested at `at`
with_map(at, access) ==
  [mode |-> "map", at |-> at, elems |-> <<>>, out |-> <<>>, access |-> access]

Init ==
  /\ \/ \E d \in Docs : doc = [raw |-> FALSE, pairs |-> d] /\ input = Render(d)
     \/ \E s \in RawInputs : doc = [raw |-> TRUE, pairs |-> <<>>] /\ input = s
  /\ parser = Parser_new(percent_decode(input))
  /\ root = EmptyRoot
  /\ cursor = <<>>
  /\ phase = "parsing"
  /\ last = [res |-> "none", writes |-> 0]
  /\ drv = Idle

(***************************************************************************)
(* parse_map_value calls parse on the entry of the next key segment.       *)
(***************************************************************************)
parse_nested ==
  /\ phase = "parsing"
  /\ LET r == parse(parser, root, cursor)
     IN  /\ r.res = "Descend"
         /\ parser' = r.p
         /\ root' = r.tree
         /\ cursor' = r.at
  /\ UNCHANGED <<input, doc, phase, last, drv>>

(***************************************************************************)
(* Deserializer::new: one iteration of                                     *)
(*   while let Ok(x) = parser.parse(&mut root) { if !x { break } }         *)
(* taken when the running invocation of parse returns.  An Err or          *)
(* Ok(false) leaves the loop and the Deserializer is built from root as it *)
(* then is; a panic aborts.                                                *)
(***************************************************************************)
new_loop_exit(res) == res # "OkTrue"

new ==
  /\ phase = "parsing"
  /\ LET r == parse(parser, root, cursor)
         res == Unwind(r.res, cursor)
     IN  /\ r.res # "Descend"
         /\ parser' = r.p
         /\ root' = r.tree
         /\ cursor' = <<>>
         /\ last' = [res |-> res, writes |-> Len(r.p.writes) - Len(parser.writes)]
         /\ phase' = IF res = "Panic" THEN "panicked"
                     ELSE IF new_loop_exit(res) THEN "ready"
                     ELSE "parsing"
         /\ drv' = IF res # "Panic" /\ new_loop_exit(res)
                   THEN with_map(<<>>, NoAccess)
                   ELSE drv
  /\ UNCHANGED <<input, doc>>

(***************************************************************************)
(* The driver.  The external decoder walks one branch of the tree: it      *)
(* takes an entry's value from a map (visit_value_seed) or an element from *)
(* a sequence, and asks the LevelDeserializer wrapping it for a scalar     *)
(* (deserialize, to which bool, u8, ..., string, option are forwarded), a  *)
(* map (deserialize_map, deserialize_struct) or a sequence                 *)
(* (deserialize_seq).                                                      *)
(***************************************************************************)
\* LevelDeserializer(value): value.into_deserializer()
into_deserializer(at) ==
  [mode |-> "level", at |-> at, elems |-> <<>>, out |-> <<>>, access |-> NoAccess]

\* MapVisitor::visit_value_seed: the next entry of the map, in the map's order
visit_value_seed ==
  /\ phase = "ready"
  /\ drv.mode = "map"
  /\ \E q \in Children(root, drv.at) : drv' = into_deserializer(q)
  /\ UNCHANGED <<input, doc, parser, root, cursor, phase, last>>

\* LevelDeserializer::deserialize: Ok with the text of a Flat, Err otherwise
LevelDeserializer_deserialize(node) ==
  IF node.kind = "Flat" THEN [ok |-> TRUE, out |-> node.val]
  ELSE [ok |-> FALSE, out |-> <<>>]

\* LevelDeserializer::deserialize_map: Ok on a Nested, Err otherwise
LevelDeserializer_deserialize_map(node) == node.kind = "Nested"

\* the orders in which map.into_iter() may give the entries at the places S
IterOrders(S) ==
  LET n == Cardinality(S)
  IN  {f \in [1..n -> S] : \A i, j \in 1..n : f[i] = f[j] => i = j}

\* the elements of the Sequence at `at`, in their order
SeqElems(tree, at) ==
  [i \in 1..Cardinality(Children(tree, at)) |-> Append(at, <<-i>>)]

\* deserialize_seq without the reading of a Nested as a sequence
LevelDeserializer_deserialize_seq_strict(tree, at) ==
  IF tree[at].kind = "Sequence" THEN {[ok |-> TRUE, elems |-> SeqElems(tree, at)]}
  ELSE {[ok |-> FALSE, elems |-> <<>>]}

\* LevelDeserializer::deserialize_seq: the elements of a Sequence in order,
\* the values of a Nested in the map's order, Err otherwise.  Each possible
\* result is [ok, elems], elems the places of the elements handed out.
LevelDeserializer_deserialize_seq(tree, at) ==
  IF tree[at].kind = "Sequence" THEN {[ok |-> TRUE, elems |-> SeqElems(tree, at)]}
  ELSE IF tree[at].kind = "Nested"
    THEN {[ok |-> TRUE, elems |-> f] : f \in IterOrders(Children(tree, at))}
  ELSE {[ok |-> FALSE, elems |-> <<>>]}

deserialize ==
  /\ phase = "ready"
  /\ drv.mode = "level"
  /\ LET r == LevelDeserializer_deserialize(root[drv.at])
     IN  /\ drv' = [drv EXCEPT !.out = r.out,
                               !.access = [cap |-> "scalar", on |-> root[drv.at],
                                           ok |-> r.ok]]
         /\ phase' = IF r.ok THEN "value" ELSE "failed"
  /\ UNCHANGED <<input, doc, parser, root, cursor, last>>

deserialize_map ==
  /\ phase = "ready"
  /\ drv.mode = "level"
  /\ LET ok == LevelDeserializer_deserialize_map(root[drv.at])
         a == [cap |-> "map", on |-> root[drv.at], ok |-> ok]
     IN  /\ drv' = IF ok THEN with_map(drv.at, a) ELSE [drv EXCEPT !.access = a]
         /\ phase' = IF ok THEN "ready" ELSE "failed"
  /\ UNCHANGED <<input, doc, parser, root, cursor, last>>

deserialize_seq ==
  /\ phase = "ready"
  /\ drv.mode = "level"
  /\ \E r \in LevelDeserializer_deserialize_seq(root, drv.at) :
       /\ drv' = [drv EXCEPT !.mode = IF r.ok THEN "seq" ELSE @,
                             !.elems = r.elems,
                             !.access = [cap |-> "seq", on |-> root[drv.at],
                                         ok |-> r.ok]]
       /\ phase' = IF r.ok THEN "ready" ELSE "failed"
  /\ UNCHANGED <<input, doc, parser, root, cursor, last>>

\* SeqDeserializer: an element of the sequence is offered as a LevelDeserializer
seq_element ==
  /\ phase = "ready"
  /\ drv.mode = "seq"
  /\ \E i \in 1..Len(drv.elems) : drv' = into_deserializer(drv.elems[i])
  /\ UNCHANGED <<input, doc, parser, root, cursor, phase, last>>

Next ==
  \/ parse_nested
  \/ new
  \/ visit_value_seed
  \/ deserialize
  \/ deserialize_map
  \/ deserialize_seq
  \/ seq_element

Spec == Init /\ [][Next]_vars

(***************************************************************************)
(* Vocabulary of the properties.                                           *)
(***************************************************************************)
\* Deserializer::new has returned and the driver holds the Deserializer
Handed == phase \in {"ready", "failed", "value"}

\* the place a pair's key names, and the text its value stands for
PlaceOf(pr) == [i \in 1..Len(pr.key) |-> pr.key[i].s]
Decoded(pr) == percent_decode(pr.val)

Prefixes(q) == {SubSeq(q, 1, k) : k \in 0..Len(q)}

\* every segment of every key is a letter-initial name
AllNames(d) ==
  \A i \in 1..Len(d) : \A k \in 1..Len(d[i].key) :
    /\ d[i].key[k].t = "id"
    /\ d[i].key[k].s # <<>>
    /\ Letter(d[i].key[k].s[1])

\* the values are texts
TextValues(d) == \A i \in 1..Len(d) : from_utf8_ok(Decoded(d[i]))

\* the key places are pairwise distinct and none lies below another
Separate(d) ==
  \A i, j \in 1..Len(d) :
    i # j => PlaceOf(d[i]) # PlaceOf(d[j]) /\ ~Under(PlaceOf(d[i]), PlaceOf(d[j]))

\* the tree with Flat(value) at each pair's place and a Nested above it
MapTree(d) ==
  [q \in UNION {Prefixes(PlaceOf(d[i])) : i \in 1..Len(d)} \cup {<<>>} |->
     IF \E i \in 1..Len(d) : q = PlaceOf(d[i])
     THEN Flat(Decoded(d[CHOOSE i \in 1..Len(d) : q = PlaceOf(d[i])]))
     ELSE Nested]

\* a value holds a percent-encoded '&' and no literal one
AmpEscaped(v) ==
  /\ \E i \in 1..Len(percent_decode(v)) : percent_decode(v)[i] = b_amp
  /\ \A i \in 1..Len(v) : v[i] # b_amp

\* the places parse_map_value has written a terminal value to at least n times
WrittenTimes(n) ==
  {q \in {parser.writes[i] : i \in 1..Len(parser.writes)} :
     Cardinality({i \in 1..Len(parser.writes) : parser.writes[i] = q}) >= n}

(***************************************************************************)
(* C1.  A parse-time error aborts the decode: once parse has returned Err, *)
(* Deserializer::new does not hand the driver a Deserializer over the tree *)
(* built so far.                                                           *)
(***************************************************************************)
C1_ParseErrorAbortsDecode == last.res = "Err" => ~Handed

(***************************************************************************)
(* C2.  No input drives the parser into an abort (tu! at the end of the    *)
(* input, unwrap of a failed key parse, panic!("")).                       *)
(***************************************************************************)
C2_NoAbort == phase # "panicked"

(***************************************************************************)
(* C3.  A slot that parse_map_value has written a terminal value to twice  *)
(* or more holds Invalid (or is gone with an Invalid above it), never a    *)
(* Flat; the call of parse that made such a write returned Ok(true); and   *)
(* every access the driver makes to that slot fails and hands out nothing. *)
(***************************************************************************)
C3_DuplicateKeyInvalid ==
  /\ \A q \in WrittenTimes(2) :
       IF q \in DOMAIN root THEN root[q].kind = "Invalid"
       ELSE \E r \in Prefixes(q) : r \in DOMAIN root /\ root[r].kind = "Invalid"
  /\ (last.writes > 0 /\ parser.writes[Len(parser.writes)] \in WrittenTimes(2))
       => last.res = "OkTrue"
  /\ (drv.access.cap # "none" /\ drv.at \in WrittenTimes(2))
       => ~drv.access.ok /\ phase = "failed" /\ drv.out = <<>> /\ drv.elems = <<>>

\* a slot written three times has been read as a scalar
C3_Witness ==
  /\ drv.at \in WrittenTimes(3)
  /\ drv.access.cap = "scalar"
  /\ phase = "failed"

(***************************************************************************)
(* C4.  For a document whose pairs all have the key h[digits] or h[] the   *)
(* decode does not abort and the tree handed to the driver holds at h a    *)
(* Sequence of the pairs' values as Flat elements, in the order of the     *)
(* pairs.                                                                  *)
(***************************************************************************)
SeqDoc(d) ==
  /\ d # <<>>
  /\ \A i \in 1..Len(d) :
       /\ Len(d[i].key) = 2
       /\ d[i].key[1] = d[1].key[1]
       /\ d[i].key[1].t = "id"
       /\ d[i].key[2].t \in {"idx", "empty"}

SeqTree(d) ==
  LET h == <<d[1].key[1].s>>
  IN  [q \in {<<>>, h} \cup {Append(h, <<-i>>) : i \in 1..Len(d)} |->
         IF q = <<>> THEN Nested
         ELSE IF q = h THEN Sequence
         ELSE Flat(Decoded(d[-q[2][1]]))]

C4_SequenceInOrder ==
  (~doc.raw /\ SeqDoc(doc.pairs))
    => phase # "panicked" /\ (Handed => root = SeqTree(doc.pairs))

(***************************************************************************)
(* C5.  For a document of pairs whose keys are made of letter-initial      *)
(* names, pairwise distinct and none a proper prefix of another (the empty *)
(* document included), decoding succeeds and the tree holds exactly        *)
(* Flat(value) at each key's place and a Nested at every proper prefix.    *)
(***************************************************************************)
C5_DistinctPathsDecode ==
  (~doc.raw /\ AllNames(doc.pairs) /\ TextValues(doc.pairs) /\ Separate(doc.pairs))
    => /\ phase # "panicked"
       /\ Handed => last.res = "OkFalse" /\ root = MapTree(doc.pairs)

\* The same with no percent-encoded '&' in any value
DistinctPathsDecodePlain ==
  (/\ ~doc.raw
   /\ AllNames(doc.pairs) /\ TextValues(doc.pairs) /\ Separate(doc.pairs)
   /\ \A i \in 1..Len(doc.pairs) : ~AmpEscaped(doc.pairs[i].val))
    => /\ phase # "panicked"
       /\ Handed => last.res = "OkFalse" /\ root = MapTree(doc.pairs)

(***************************************************************************)
(* C6.  A percent-encoded '&' in a value does not end the pair: for a      *)
(* document as in C5 one of whose values holds %26, each key's slot holds  *)
(* the whole decoded value, the '&' included, and the tree has no other    *)
(* entry.                                                                  *)
(***************************************************************************)
C6_EscapedAmpStaysInValue ==
  (/\ ~doc.raw
   /\ AllNames(doc.pairs) /\ TextValues(doc.pairs) /\ Separate(doc.pairs)
   /\ \E i \in 1..Len(doc.pairs) : AmpEscaped(doc.pairs[i].val))
    => /\ phase # "panicked"
       /\ Handed => \A q \in DOMAIN root : q \in DOMAIN MapTree(doc.pairs)
                                        /\ root[q] = MapTree(doc.pairs)[q]

(***************************************************************************)
(* C7.  The nesting depth is enforced: parse never runs on a node more     *)
(* than array_limit levels below the root, and no node of the tree lies    *)
(* below array_limit bracketed segments.                                   *)
(***************************************************************************)
C7_DepthEnforced ==
  /\ Len(cursor) <= array_limit
  /\ \A q \in DOMAIN root : Len(q) <= array_limit + 1

(***************************************************************************)
(* C8.  A bracketed name whose ']' is missing before the '=' makes the     *)
(* decode fail with an error, and its value is never stored as if the      *)
(* bracket had been closed.                                                *)
(***************************************************************************)
OpenPairs(d) == {i \in 1..Len(d) : d[i].key[Len(d[i].key)].t = "open"}

C8_UnterminatedBracketFails ==
  (~doc.raw /\ OpenPairs(doc.pairs) # {})
    => /\ Handed => last.res = "Err"
       /\ \A i \in OpenPairs(doc.pairs) :
            PlaceOf(doc.pairs[i]) \in DOMAIN root
              => root[PlaceOf(doc.pairs[i])].kind # "Flat"

(***************************************************************************)
(* C9.  On a node below the root: map access succeeds exactly on a Nested; *)
(* scalar access succeeds exactly on a Flat and hands out its text;        *)
(* sequence access succeeds exactly on a Sequence (its elements in order)  *)
(* or a Nested (its values, each once); a failed access hands out nothing. *)
(***************************************************************************)
C9_AccessShapeChecked ==
  LET a == drv.access
      k == a.on.kind
  IN  a.cap # "none" =>
        /\ drv.at # <<>>
        /\ a.on = root[drv.at]
        /\ a.cap = "map" => (a.ok <=> k = "Nested")
        /\ a.cap = "scalar" => /\ a.ok <=> k = "Flat"
                               /\ a.ok => drv.out = a.on.val
        /\ a.cap = "seq" =>
             /\ a.ok <=> k \in {"Sequence", "Nested"}
             /\ k = "Sequence" => drv.elems = SeqElems(root, drv.at)
             /\ k = "Nested" =>
                  /\ Len(drv.elems) = Cardinality(Children(root, drv.at))
                  /\ {drv.elems[i] : i \in 1..Len(drv.elems)} = Children(root, drv.at)
        /\ a.ok => phase # "failed" /\ drv.mode = (IF a.cap = "scalar" THEN "level" ELSE a.cap)
        /\ ~a.ok => phase = "failed" /\ drv.out = <<>> /\ drv.elems = <<>>

\* a Nested with two entries has been read as a sequence
C9_Witness ==
  /\ drv.access.cap = "seq"
  /\ drv.access.on.kind = "Nested"
  /\ drv.access.ok
  /\ Len(drv.elems) = 2

(***************************************************************************)
(* C10.  A pair that writes a scalar at a key, followed by a pair whose    *)
(* key goes through that key into a nested path: parsing does not abort or *)
(* fail, the key's slot is replaced by Invalid, and there is no other      *)
(* entry anywhere in the tree.                                             *)
(***************************************************************************)
ScalarThenNested(d) ==
  /\ Len(d) = 2
  /\ AllNames(d)
  /\ Under(PlaceOf(d[1]), PlaceOf(d[2]))

C10_ScalarThenNestedInvalid ==
  (~doc.raw /\ ScalarThenNested(doc.pairs))
    => /\ phase # "panicked"
       /\ last.res # "Err"
       /\ Handed =>
            /\ DOMAIN root = Prefixes(PlaceOf(doc.pairs[1]))
            /\ root[PlaceOf(doc.pairs[1])].kind = "Invalid"

====
